---- MODULE Spec2Model ----
(***************************************************************************)
(* Model of SerperScrapeToolMaz._run (src/src/serper_scrape_tool_maz/      *)
(* tool.py): credential lookup, URL normalisation, one POST to the Serper  *)
(* scrape endpoint, interpretation of the answer and formatting of the     *)
(* returned string.  Python strings are TLA+ strings; the operators below  *)
(* compute on them character by character.                                 *)
(***************************************************************************)
EXTENDS Integers, Sequences, FiniteSets, TLC

VARIABLES
    env,               \* os.environ["SERPER_API_KEY"]: absent or a string
    pc,                \* position of the single caller thread inside _run
    arg_url,           \* the url argument as the caller passed it
    url,               \* the local variable url (rebound by line 54)
    include_markdown,  \* the include_markdown argument
    api_key,           \* the local variable api_key (line 45)
    payload,           \* the request body built at line 56
    posts,             \* the requests.post calls of this invocation, in order
    post_error,        \* the exception requests.post raised (line 61), if any
    response,          \* what requests.post returned (line 61)
    outcome,           \* how the invocation ended: a returned string or a raise
    json_error,        \* the class response.json() raises in the installed requests
    prev               \* inputs and outcome of the invocation that ended before

vars == <<env, pc, arg_url, url, include_markdown, api_key, payload, posts,
          post_error, response, outcome, json_error, prev>>

----------------------------------------------------------------------------
(* Python string primitives *)

\* s[i] as a one character string
CharAt(s, i) == SubSeq(s, i, i)

\* str.startswith(prefix)
StartsWith(s, p) == Len(s) >= Len(p) /\ SubSeq(s, 1, Len(p)) = p

\* str.endswith(suffix)
EndsWith(s, p) == Len(s) >= Len(p) /\ SubSeq(s, Len(s) - Len(p) + 1, Len(s)) = p

\* sub in s
Contains(s, p) ==
    \E i \in 1..(Len(s) - Len(p) + 1) : SubSeq(s, i, i + Len(p) - 1) = p

\* str.startswith(tuple_of_prefixes)
StartsWithAny(s, ps) == \E i \in 1..Len(ps) : StartsWith(s, ps[i])

\* str(n) for a non-negative int n: decimal digits, most significant first
RECURSIVE IntToStr(_)
IntToStr(n) ==
    IF n < 10 THEN CharAt("0123456789", n + 1)
    ELSE IntToStr(n \div 10) \o CharAt("0123456789", (n % 10) + 1)

----------------------------------------------------------------------------
(* Parsed JSON values, as response.json() hands them to the code.  Every   *)
(* value has the same fields: t is the Python type, s the str value, n the *)
(* int value, keys the dict keys in order, vals the dict values or the     *)
(* list elements.                                                          *)

JNull == [t |-> "NoneType", s |-> "", n |-> 0, keys |-> <<>>, vals |-> <<>>]
JInt(i) == [t |-> "int", s |-> "", n |-> i, keys |-> <<>>, vals |-> <<>>]
JStr(str) == [t |-> "str", s |-> str, n |-> 0, keys |-> <<>>, vals |-> <<>>]
JList(elems) == [t |-> "list", s |-> "", n |-> 0, keys |-> <<>>, vals |-> elems]
JDict(ks, vs) == [t |-> "dict", s |-> "", n |-> 0, keys |-> ks, vals |-> vs]

\* repr(v) and str(v); str differs from repr only for a str
RECURSIVE PyRepr(_)
RECURSIVE ReprItems(_, _, _)
ReprItems(v, i, isDict) ==
    IF i > Len(v.vals) THEN ""
    ELSE (IF i > 1 THEN ", " ELSE "")
         \o (IF isDict THEN "'" \o v.keys[i] \o "': " ELSE "")
         \o PyRepr(v.vals[i])
         \o ReprItems(v, i + 1, isDict)
PyRepr(v) ==
    CASE v.t = "NoneType" -> "None"
      [] v.t = "int" -> IntToStr(v.n)
      [] v.t = "str" -> "'" \o v.s \o "'"
      [] v.t = "list" -> "[" \o ReprItems(v, 1, FALSE) \o "]"
      [] v.t = "dict" -> "{" \o ReprItems(v, 1, TRUE) \o "}"
PyStr(v) == IF v.t = "str" THEN v.s ELSE PyRepr(v)

----------------------------------------------------------------------------
(* Outcomes of a piece of Python: a value handed on, or an exception       *)

Exc(c, d) == [cls |-> c, detail |-> d]
Returned(str) == [kind |-> "returned", value |-> str, cls |-> ""]
Raised(e) == [kind |-> "raised", value |-> e.detail, cls |-> e.cls]
NoOutcome == [kind |-> "none", value |-> "", cls |-> ""]

\* `"text" in data` (line 68): does it raise, and if not its value
InRaises(data) == data.t \in {"NoneType", "int"}
InError(data) ==
    Exc("TypeError", "argument of type '" \o data.t \o "' is not iterable")
InValue(data) ==
    CASE data.t = "dict" -> \E i \in 1..Len(data.keys) : data.keys[i] = "text"
      [] data.t = "list" -> \E i \in 1..Len(data.vals) : data.vals[i] = JStr("text")
      [] data.t = "str" -> Contains(data.s, "text")

\* `data["text"]` (line 69)
GetItemRaises(data) == data.t # "dict"
GetItemError(data) ==
    IF data.t = "str"
    THEN Exc("TypeError", "string indices must be integers, not 'str'")
    ELSE Exc("TypeError", "list indices must be integers or slices, not str")
GetItem(data) ==
    data.vals[CHOOSE i \in 1..Len(data.keys) : data.keys[i] = "text"]

\* `len(content)` (line 74)
LenRaises(content) == content.t \in {"NoneType", "int"}
LenError(content) ==
    Exc("TypeError", "object of type '" \o content.t \o "' has no len()")
PyLen(content) ==
    CASE content.t = "str" -> Len(content.s)
      [] content.t = "list" -> Len(content.vals)
      [] content.t = "dict" -> Len(content.keys)

\* `"**Content:**\n" + content` (line 75)
ConcatRaises(content) == content.t # "str"
ConcatError(content) ==
    Exc("TypeError",
        "can only concatenate str (not \"" \o content.t \o "\") to str")

\* the success string with the markdown label not following the argument
SuccessStringAlwaysEnabled(u, md, content) ==
    "**Scraped from:** " \o u \o "\n"
    \o "**Markdown formatting:** Enabled\n"
    \o "**Content length:** " \o IntToStr(PyLen(content)) \o " characters\n\n"
    \o "**Content:**\n" \o content.s

\* lines 72-75: the success string
SuccessString(u, md, content) ==
    "**Scraped from:** " \o u \o "\n"
    \o "**Markdown formatting:** " \o (IF md THEN "Enabled" ELSE "Disabled") \o "\n"
    \o "**Content length:** " \o IntToStr(PyLen(content)) \o " characters\n\n"
    \o "**Content:**\n" \o content.s

\* the empty-result string without the echo of the parsed response
NoContentStringNoEcho(u, data) ==
    "No content found for URL: " \o u \o "."

\* line 79: the empty-result string
NoContentString(u, data) ==
    "No content found for URL: " \o u \o ". Response: " \o PyStr(data)

\* lines 67-79: from the parsed data to a return or a raise
ExtractContent(data, u, md) ==
    IF InRaises(data) THEN Raised(InError(data))
    ELSE IF ~InValue(data) THEN Returned(NoContentString(u, data))
    ELSE IF GetItemRaises(data) THEN Raised(GetItemError(data))
    ELSE LET content == GetItem(data) IN
         IF LenRaises(content) THEN Raised(LenError(content))
         ELSE IF ConcatRaises(content) THEN Raised(ConcatError(content))
         ELSE Returned(SuccessString(u, md, content))

----------------------------------------------------------------------------
(* Exceptions and the three except clauses of lines 81-86                  *)

\* the classes an exception of class c is an instance of (its MRO)
Bases(c) ==
    CASE c = "requests.ConnectionError" ->
            {c, "requests.RequestException", "OSError", "Exception"}
      [] c = "requests.ReadTimeout" ->
            {c, "requests.Timeout", "requests.RequestException", "OSError",
             "Exception"}
      [] c = "requests.HTTPError" ->
            {c, "requests.RequestException", "OSError", "Exception"}
      \* requests >= 2.27: class JSONDecodeError(InvalidJSONError, json.JSONDecodeError)
      [] c = "requests.JSONDecodeError" ->
            {c, "requests.InvalidJSONError", "requests.RequestException",
             "OSError", "json.JSONDecodeError", "ValueError", "Exception"}
      [] c = "json.JSONDecodeError" -> {c, "ValueError", "Exception"}
      [] c = "TypeError" -> {c, "Exception"}

NetworkErrorString(u, detail) ==
    "Network error while scraping " \o u \o ": " \o detail
JsonErrorString(u, detail) ==
    "JSON parsing error from Serper API: " \o detail
UnexpectedErrorString(u, detail) ==
    "Unexpected error while scraping " \o u \o ": " \o detail

\* the except clauses without the final catch-all
ExceptClausesNoCatchAll ==
    << [catch |-> "requests.RequestException", fmt |-> "network"],
       [catch |-> "json.JSONDecodeError", fmt |-> "json"] >>

\* the except clauses in source order: the class caught and the string built
ExceptClauses ==
    << [catch |-> "requests.RequestException", fmt |-> "network"],
       [catch |-> "json.JSONDecodeError", fmt |-> "json"],
       [catch |-> "Exception", fmt |-> "unexpected"] >>

HandlerString(fmt, u, detail) ==
    CASE fmt = "network" -> NetworkErrorString(u, detail)
      [] fmt = "json" -> JsonErrorString(u, detail)
      [] fmt = "unexpected" -> UnexpectedErrorString(u, detail)

\* the try statement: the first clause whose class the exception is an
\* instance of runs; with no such clause the exception leaves _run
RECURSIVE Dispatch(_, _, _)
Dispatch(o, u, i) ==
    IF i > Len(ExceptClauses) THEN o
    ELSE IF ExceptClauses[i].catch \in Bases(o.cls)
         THEN Returned(HandlerString(ExceptClauses[i].fmt, u, o.value))
         ELSE Dispatch(o, u, i + 1)

Try(o, u) == IF o.kind = "raised" THEN Dispatch(o, u, 1) ELSE o

----------------------------------------------------------------------------
(* Lines 45-58: credential, URL normalisation, request body                *)

EnvAbsent == [present |-> FALSE, value |-> ""]
EnvSet(v) == [present |-> TRUE, value |-> v]

\* the credential of the invocation before, kept instead of read again
GetEnvCached == IF prev.called THEN prev.env ELSE env

\* os.getenv("SERPER_API_KEY"): None when unset, else the value
GetEnv == env

\* `api_key is None`: the empty string passes
FalsyNoneOnly(k) == ~k.present

\* `not api_key`: None and "" are both falsy
Falsy(k) == ~k.present \/ Len(k.value) = 0

MissingKeyString ==
    "Error: SERPER_API_KEY not found in environment variables. Please add it to your .env file."

serper_url == "https://scrape.serper.dev"

\* the scheme test with "https://" alone
NormalizeHttpsOnly(u) ==
    IF ~StartsWithAny(u, <<"https://">>) THEN "https://" \o u ELSE u

\* lines 53-54
Normalize(u) ==
    IF ~StartsWithAny(u, <<"http://", "https://">>) THEN "https://" \o u ELSE u

\* json.dumps of a str: the quote and the backslash are escaped
RECURSIVE JsonEscape(_)
JsonEscape(str) ==
    IF Len(str) = 0 THEN ""
    ELSE LET c == Head(str) IN
         (IF c = "\"" THEN "\\\"" ELSE IF c = "\\" THEN "\\\\" ELSE c)
         \o JsonEscape(Tail(str))

\* line 56
Payload(u, md) ==
    "{\"url\": \"" \o JsonEscape(u) \o "\", \"includeMarkdown\": "
    \o (IF md THEN "true" ELSE "false") \o "}"

\* line 58
Headers(k) == [XApiKey |-> k.value, ContentType |-> "application/json"]

----------------------------------------------------------------------------
(* The callers and the remote service: the values the inputs are drawn from *)

Urls ==
    {"example.com", "http://example.com", "https://www.example.com",
     "HTTP://a\"b.io"}

Credentials == {EnvAbsent, EnvSet(""), EnvSet("sk-test")}

\* requests.post raising instead of returning
TransportErrors ==
    { Exc("requests.ConnectionError",
          "HTTPSConnectionPool(host='scrape.serper.dev', port=443): Max retries exceeded with url: / (Caused by NameResolutionError)"),
      Exc("requests.ReadTimeout",
          "HTTPSConnectionPool(host='scrape.serper.dev', port=443): Read timed out.") }

\* a response body: the raw text and what response.json() makes of it
Body(raw, valid, value) == [raw |-> raw, valid |-> valid, json |-> value]
NotJson(raw) == Body(raw, FALSE, JNull)

\* the longest page text the remote service returns
MaxTextLen == 11
PageText == "Hello World, this domain is for use in examples"
TextBody(str) ==
    Body("{\"text\": \"" \o str \o "\"}", TRUE, JDict(<<"text">>, <<JStr(str)>>))

TextBodies ==
    { TextBody(SubSeq(PageText, 1, n)) : n \in 0..MaxTextLen }
    \cup
    { Body("{\"text\": \"Ex\", \"credits\": 2}", TRUE,
           JDict(<<"text", "credits">>, <<JStr("Ex"), JInt(2)>>)),
      Body("{\"text\": null}", TRUE, JDict(<<"text">>, <<JNull>>)),
      Body("{\"text\": 404}", TRUE, JDict(<<"text">>, <<JInt(404)>>)),
      Body("{\"text\": [\"a\", \"b\"]}", TRUE,
           JDict(<<"text">>, <<JList(<<JStr("a"), JStr("b")>>)>>)) }

OtherJsonBodies ==
    { Body("{}", TRUE, JDict(<<>>, <<>>)),
      Body("{\"message\": \"Unauthorized\"}", TRUE,
           JDict(<<"message">>, <<JStr("Unauthorized")>>)),
      Body("null", TRUE, JNull),
      Body("42", TRUE, JInt(42)),
      Body("\"plain text\"", TRUE, JStr("plain text")),
      Body("\"ok\"", TRUE, JStr("ok")),
      Body("[\"text\"]", TRUE, JList(<<JStr("text")>>)),
      Body("[]", TRUE, JList(<<>>)) }

NonJsonBodies == { NotJson("<html>Bad Gateway</html>"), NotJson("") }

Bodies == TextBodies \cup OtherJsonBodies \cup NonJsonBodies

\* bodies that come with a 3xx, 4xx or 5xx answer
ErrorBodies ==
    { TextBody("Hello World"),
      Body("{\"message\": \"Unauthorized\"}", TRUE,
           JDict(<<"message">>, <<JStr("Unauthorized")>>)),
      NotJson("<html>Bad Gateway</html>") }

Resp(st, reason, b) == [status |-> st, reason |-> reason, body |-> b]
NoResponse == Resp(0, "", NotJson(""))

Responses ==
    {Resp(200, "OK", b) : b \in Bodies}
    \cup {Resp(304, "Not Modified", b) : b \in ErrorBodies}
    \cup {Resp(404, "Not Found", b) : b \in ErrorBodies}
    \cup {Resp(502, "Bad Gateway", b) : b \in ErrorBodies}

\* the class of the error response.json() raises on a body that is no JSON:
\* requests.exceptions.JSONDecodeError since requests 2.27, json.JSONDecodeError
\* before
JsonErrorClasses == {"requests.JSONDecodeError", "json.JSONDecodeError"}

\* a status test that lets 4xx through
StatusRaisesServerOnly(r) == 500 <= r.status /\ r.status < 600

\* response.raise_for_status() (line 62)
StatusRaises(r) == 400 <= r.status /\ r.status < 600
StatusError(r) ==
    Exc("requests.HTTPError",
        IntToStr(r.status)
        \o (IF r.status < 500 THEN " Client Error: " ELSE " Server Error: ")
        \o r.reason \o " for url: " \o serper_url \o "/")

\* response.json() (line 65) on a body that is no JSON
JsonError(c) == Exc(c, "Expecting value: line 1 column 1 (char 0)")

----------------------------------------------------------------------------
(* The state machine *)

NoExc == Exc("", "")

NoCall ==
    [called |-> FALSE, arg_url |-> "", include_markdown |-> FALSE,
     env |-> EnvAbsent, post_error |-> NoExc, response |-> NoResponse,
     outcome |-> NoOutcome]

Init ==
    /\ env \in Credentials
    /\ json_error \in JsonErrorClasses
    /\ pc = "idle"
    /\ arg_url = ""
    /\ url = ""
    /\ include_markdown = FALSE
    /\ api_key = EnvAbsent
    /\ payload = ""
    /\ posts = <<>>
    /\ post_error = NoExc
    /\ response = NoResponse
    /\ outcome = NoOutcome
    /\ prev = NoCall

\* the credential is added, changed or removed between two invocations
SetEnv(v) ==
    /\ pc = "idle"
    /\ v # env
    /\ env' = v
    /\ UNCHANGED <<pc, arg_url, url, include_markdown, api_key, payload, posts,
                   post_error, response, outcome, json_error, prev>>

\* tool._run(url=u, include_markdown=md) is entered
Invoke(u, md) ==
    /\ pc = "idle"
    /\ pc' = "getenv"
    /\ arg_url' = u
    /\ url' = u
    /\ include_markdown' = md
    /\ UNCHANGED <<env, api_key, payload, posts, post_error, response, outcome,
                   json_error, prev>>

\* lines 45-58
Prepare ==
    /\ pc = "getenv"
    /\ api_key' = GetEnv
    /\ IF Falsy(api_key')
       THEN /\ outcome' = Returned(MissingKeyString)
            /\ pc' = "done"
            /\ UNCHANGED <<url, payload>>
       ELSE /\ url' = Normalize(url)
            /\ payload' = Payload(url', include_markdown)
            /\ pc' = "post"
            /\ UNCHANGED outcome
    /\ UNCHANGED <<env, arg_url, include_markdown, posts, post_error, response,
                   json_error, prev>>

Request == [endpoint |-> serper_url, headers |-> Headers(api_key), data |-> payload]

\* line 61 with a second attempt after a transport failure
PostWithRetry ==
    /\ pc = "post"
    /\ \/ \E e \in TransportErrors :
            /\ posts' = Append(Append(posts, Request), Request)
            /\ post_error' = e
            /\ outcome' = Try(Raised(e), url)
            /\ pc' = "done"
            /\ UNCHANGED response
       \/ \E r \in Responses :
            /\ posts' = Append(posts, Request)
            /\ response' = r
            /\ pc' = "status"
            /\ UNCHANGED <<post_error, outcome>>
    /\ UNCHANGED <<env, arg_url, url, include_markdown, api_key, payload,
                   json_error, prev>>

\* line 61: the request goes out; the transport fails or a response arrives
Post ==
    /\ pc = "post"
    /\ posts' = Append(posts, Request)
    /\ \/ \E e \in TransportErrors :
            /\ post_error' = e
            /\ outcome' = Try(Raised(e), url)
            /\ pc' = "done"
            /\ UNCHANGED response
       \/ \E r \in Responses :
            /\ response' = r
            /\ pc' = "status"
            /\ UNCHANGED <<post_error, outcome>>
    /\ UNCHANGED <<env, arg_url, url, include_markdown, api_key, payload,
                   json_error, prev>>

\* line 62
RaiseForStatus ==
    /\ pc = "status"
    /\ IF StatusRaises(response)
       THEN /\ outcome' = Try(Raised(StatusError(response)), url)
            /\ pc' = "done"
       ELSE /\ pc' = "parse"
            /\ UNCHANGED outcome
    /\ UNCHANGED <<env, arg_url, url, include_markdown, api_key, payload, posts,
                   post_error, response, json_error, prev>>

\* lines 65-79 under the try statement
Parse ==
    /\ pc = "parse"
    /\ outcome' =
          IF response.body.valid
          THEN Try(ExtractContent(response.body.json, url, include_markdown), url)
          ELSE Try(Raised(JsonError(json_error)), url)
    /\ pc' = "done"
    /\ UNCHANGED <<env, arg_url, url, include_markdown, api_key, payload, posts,
                   post_error, response, json_error, prev>>

\* the caller has the outcome; the locals of the invocation are gone
Return ==
    /\ pc = "done"
    /\ prev' = [called |-> TRUE, arg_url |-> arg_url,
                include_markdown |-> include_markdown, env |-> env,
                post_error |-> post_error, response |-> response,
                outcome |-> outcome]
    /\ pc' = "idle"
    /\ arg_url' = ""
    /\ url' = ""
    /\ include_markdown' = FALSE
    /\ api_key' = EnvAbsent
    /\ payload' = ""
    /\ posts' = <<>>
    /\ post_error' = NoExc
    /\ response' = NoResponse
    /\ outcome' = NoOutcome
    /\ UNCHANGED <<env, json_error>>

Next ==
    \/ \E v \in Credentials : SetEnv(v)
    \/ \E u \in Urls, md \in BOOLEAN : Invoke(u, md)
    \/ Prepare
    \/ Post
    \/ RaiseForStatus
    \/ Parse
    \/ Return

Spec == Init /\ [][Next]_vars

----------------------------------------------------------------------------
(* Vocabulary of the properties *)

Finished == pc = "done"
InFlight == pc \in {"post", "status", "parse", "done"}

\* the credential is missing: unset, or set to the empty string
CredentialMissing == ~env.present \/ env.value = ""

\* the normalized URL, as the properties state it
NormalizedUrl(u) ==
    IF StartsWith(u, "http://") \/ StartsWith(u, "https://") THEN u
    ELSE "https://" \o u

\* the url field of a request body: the JSON string after {"url": "
UrlFieldPrefix == "{\"url\": \""
RECURSIVE JsonStringBody(_)
JsonStringBody(str) ==
    IF Len(str) = 0 \/ Head(str) = "\"" THEN ""
    ELSE IF Head(str) = "\\"
         THEN CharAt(str, 2) \o JsonStringBody(SubSeq(str, 3, Len(str)))
         ELSE Head(str) \o JsonStringBody(Tail(str))
PayloadUrl(body) ==
    JsonStringBody(SubSeq(body, Len(UrlFieldPrefix) + 1, Len(body)))

IsSuccessString(str) == StartsWith(str, "**Scraped from:** ")

\* the transport failed, or a response with this status arrived
TransportFailed == post_error # NoExc
Answered == response # NoResponse
Status2xx == Answered /\ 200 <= response.status /\ response.status <= 299
Status4xx5xx == Answered /\ 400 <= response.status /\ response.status <= 599

\* a 2xx answer whose body is JSON, and the shape of the parsed value
Parsed2xx == Finished /\ Status2xx /\ response.body.valid
Data == response.body.json
HasTextField(d) == d.t = "dict" /\ \E i \in 1..Len(d.keys) : d.keys[i] = "text"
TextValue(d) == d.vals[CHOOSE i \in 1..Len(d.keys) : d.keys[i] = "text"]
LacksText(d) ==
    \/ d.t = "dict" /\ \A i \in 1..Len(d.keys) : d.keys[i] # "text"
    \/ d.t = "list" /\ \A i \in 1..Len(d.vals) : d.vals[i] # JStr("text")
    \/ d.t = "str" /\ ~Contains(d.s, "text")

----------------------------------------------------------------------------
\* C1: _run is total: whatever the url, include_markdown, the credential and
\* the remote service do, an invocation that ends has returned a string; no
\* exception leaves _run.
C1_RunIsTotal == Finished => outcome.kind = "returned"

\* an invocation ended by the catch-all clause: the body parsed to null
C1_Witness ==
    /\ Finished
    /\ Status2xx /\ response.body.valid /\ Data = JNull
    /\ StartsWith(outcome.value, "Unexpected error while scraping ")

\* C2: with the credential missing, _run returns the fixed missing-credential
\* string, sends nothing, and has neither normalized the URL nor built a
\* request body.
C2_MissingCredential ==
    (pc # "idle" /\ CredentialMissing) =>
        /\ posts = <<>>
        /\ payload = ""
        /\ url = arg_url
        /\ ~Answered /\ ~TransportFailed
        /\ pc \in {"getenv", "done"}
        /\ Finished =>
              outcome = Returned("Error: SERPER_API_KEY not found in environment variables. Please add it to your .env file.")

\* the credential is set but empty, and the URL had no scheme
C2_Witness ==
    /\ Finished
    /\ env = EnvSet("")
    /\ arg_url = "example.com"
    /\ outcome.kind = "returned"

\* C3: the URL in the request body and the URL on the "Scraped from" line are
\* the normalized URL: "https://" + url when url starts with neither
\* "http://" nor "https://", url itself otherwise; normalizing again changes
\* nothing.
C3_NormalizedUrlSentAndEchoed ==
    InFlight /\ ~CredentialMissing =>
        /\ url = NormalizedUrl(arg_url)
        /\ NormalizedUrl(url) = url
        /\ StartsWith(payload, UrlFieldPrefix)
        /\ PayloadUrl(payload) = NormalizedUrl(arg_url)
        /\ \A i \in 1..Len(posts) : PayloadUrl(posts[i].data) = NormalizedUrl(arg_url)
        /\ (Finished /\ IsSuccessString(outcome.value)) =>
              StartsWith(outcome.value,
                         "**Scraped from:** " \o NormalizedUrl(arg_url) \o "\n")

\* a success for a URL passed without a scheme
C3_Witness ==
    /\ Finished
    /\ arg_url = "example.com"
    /\ Len(posts) = 1
    /\ PayloadUrl(posts[1].data) = "https://example.com"
    /\ StartsWith(outcome.value, "**Scraped from:** https://example.com\n")

\* C4: a 2xx answer whose body is not JSON gives a string that starts with
\* "JSON parsing error from Serper API:".
C4_NonJsonBodyIsJsonError ==
    (Finished /\ Status2xx /\ ~response.body.valid) =>
        StartsWith(outcome.value, "JSON parsing error from Serper API:")

\* C5, as claimed: a transport failure or any non-2xx status gives the
\* network-error string for the normalized URL.
C5_Non2xxIsNetworkError ==
    (Finished /\ (TransportFailed \/ (Answered /\ ~Status2xx))) =>
        StartsWith(outcome.value,
                   "Network error while scraping " \o NormalizedUrl(arg_url) \o ": ")

\* C5, amended: a transport failure or a 4xx/5xx status gives the
\* network-error string for the normalized URL; the body of such an answer
\* never reaches the parse step and no success string is produced.
C5_FailureIsNetworkError ==
    /\ (Finished /\ (TransportFailed \/ Status4xx5xx)) =>
          /\ StartsWith(outcome.value,
                        "Network error while scraping " \o NormalizedUrl(arg_url) \o ": ")
          /\ ~IsSuccessString(outcome.value)
    /\ pc = "parse" => ~Status4xx5xx /\ ~TransportFailed

\* a 404 answer that carries a perfectly good text body
C5_Witness ==
    /\ Finished
    /\ arg_url = "example.com"
    /\ response.status = 404
    /\ response.body = TextBody("Hello World")
    /\ StartsWith(outcome.value, "Network error while scraping https://example.com: 404")

\* the success string, as the properties state it
ExpectedSuccess(text) ==
    "**Scraped from:** " \o NormalizedUrl(arg_url) \o "\n"
    \o "**Markdown formatting:** "
    \o (IF include_markdown THEN "Enabled" ELSE "Disabled") \o "\n"
    \o "**Content length:** " \o IntToStr(Len(text)) \o " characters\n\n"
    \o "**Content:**\n" \o text

\* C6, as claimed: whenever the parsed 2xx response has a text field, _run
\* returns the success string.
C6_TextFieldGivesSuccess ==
    (Parsed2xx /\ HasTextField(Data)) =>
        /\ outcome.kind = "returned"
        /\ IsSuccessString(outcome.value)

\* C6, amended: whenever the parsed 2xx response is an object with a text
\* field whose value is a string, _run returns the success string: the
\* normalized URL, Enabled or Disabled after include_markdown, the character
\* count of the text, a blank line, "**Content:**" and the text untruncated.
C6_StringTextGivesSuccess ==
    (Parsed2xx /\ HasTextField(Data) /\ TextValue(Data).t = "str") =>
        LET text == TextValue(Data).s IN
        /\ outcome = Returned(ExpectedSuccess(text))
        /\ EndsWith(outcome.value, "**Content:**\n" \o text)
        /\ text = "Hello World" =>
              /\ Contains(outcome.value, "\n**Content length:** 11 characters\n\n")
              /\ EndsWith(outcome.value, "**Content:**\nHello World")
        /\ text = "" => Contains(outcome.value, "\n**Content length:** 0 characters\n\n")

\* {"text": "Hello World"} with include_markdown false
C6_Witness ==
    /\ Finished
    /\ Status2xx
    /\ response.body = TextBody("Hello World")
    /\ ~include_markdown
    /\ Contains(outcome.value, "**Markdown formatting:** Disabled\n**Content length:** 11 characters")

\* C7, as claimed: a 2xx body that is JSON of any shape other than an object
\* with a text field gives the empty-result string with the normalized URL
\* and the parsed response.
C7_AnyOtherShapeIsEmptyResult ==
    (Parsed2xx /\ ~HasTextField(Data)) =>
        /\ StartsWith(outcome.value,
                      "No content found for URL: " \o NormalizedUrl(arg_url))
        /\ Contains(outcome.value, "Response: ")

\* C7, amended: a 2xx body that parses to an object without a text key, to an
\* array without the element "text" or to a string without the substring
\* "text" gives "No content found for URL: ", the normalized URL, and the
\* parsed response after "Response: ".
C7_LackingTextIsEmptyResult ==
    (Parsed2xx /\ LacksText(Data)) =>
        /\ outcome.kind = "returned"
        /\ StartsWith(outcome.value,
                      "No content found for URL: " \o NormalizedUrl(arg_url)
                      \o ". Response: ")
        /\ EndsWith(outcome.value, ". Response: " \o PyStr(Data))
        /\ Data = JDict(<<>>, <<>>) => EndsWith(outcome.value, ". Response: {}")

\* the body {} for a URL passed without a scheme
C7_Witness ==
    /\ Finished
    /\ Status2xx
    /\ response.body.valid /\ Data = JDict(<<>>, <<>>)
    /\ outcome.value = "No content found for URL: https://example.com. Response: {}"

\* C8, as claimed: every invocation performs exactly one outbound call.
C8_ExactlyOnePost == Finished => Len(posts) = 1

\* C8, amended: an invocation performs at most one outbound call, a POST to
\* https://scrape.serper.dev: none when the credential is missing, exactly
\* one otherwise, never a second one after a failure; and no step of an
\* invocation changes the credential.
C8_PostCount ==
    /\ Len(posts) <= 1
    /\ \A i \in 1..Len(posts) : posts[i].endpoint = "https://scrape.serper.dev"
    /\ Finished => Len(posts) = (IF CredentialMissing THEN 0 ELSE 1)
    /\ (TransportFailed \/ Answered) => Len(posts) = 1
C8_AtMostOnePost ==
    [](C8_PostCount) /\ [][pc # "idle" => env' = env]_vars

\* an invocation that ended on a transport failure after its one request
C8_Witness ==
    /\ Finished
    /\ TransportFailed
    /\ Len(posts) = 1
    /\ StartsWith(outcome.value, "Network error while scraping ")

C10_FailureContainsError ==
    (Finished /\ ~IsSuccessString(outcome.value)) =>
        Contains(outcome.value, "Error")

====
